---- MODULE Spec2Model ----
(***************************************************************************)
(* Model of legal-aid-frontend/src/App.js: the React state of App          *)
(* (cases, selectedCase, isLoading, error), of ChatPanel (newMessage,      *)
(* isTyping) and of DocumentPanel (isUploading), the async handlers that   *)
(* suspend at fetch(), and the backend the handlers talk to.               *)
(*                                                                         *)
(* Strings are sequences of tokens (a token is a string constant), so that *)
(* trim() and the template literals are computed.  `null` is the empty     *)
(* sequence: selectedCase is <<>> or <<case>>, error is <<>> or a text.    *)
(***************************************************************************)
EXTENDS Integers, Sequences, FiniteSets, TLC

\* ------------------------------------------------------------------ bounds
\* Network operations (create, chat send, upload) the user starts in one run.
MaxOps == 3

\* ------------------------------------------------------------------ inputs
\* What the user can type in the compose box / the prompt.
Texts == { <<"h", "i">>, <<" ", "\t", "\\u00A0">> }
\* prompt() returns null (cancel, modelled as the empty text), blanks or a name.
PromptInputs == { <<>>, <<"\t", " ", "\\u3000">>, <<"n">> }
\* e.target.files[0]: undefined (<<>>) or a file name.
Files == { <<>>, <<"contract.pdf">> }

\* ------------------------------------------------------------------ strings
\* A text is a sequence of characters, each a one-character string.  A
\* printable ASCII character is written as itself, TAB, LF, FF and CR as
\* "\t", "\n", "\f" and "\r", and every other character as its JavaScript
\* escape with four upper-case hexadecimal digits, e.g. "\\u00E9".
\*
\* The characters String.prototype.trim strips: WhiteSpace (TAB, VT, FF, SP,
\* NBSP, ZWNBSP and every other Unicode space separator) and LineTerminator
\* (LF, CR, LS, PS).
WhiteSpace ==
  { "\t", "\n", "\\u000B", "\f", "\r", " ", "\\u00A0",
    "\\u1680", "\\u2000", "\\u2001", "\\u2002", "\\u2003", "\\u2004",
    "\\u2005", "\\u2006", "\\u2007", "\\u2008", "\\u2009", "\\u200A",
    "\\u2028", "\\u2029", "\\u202F", "\\u205F", "\\u3000", "\\uFEFF" }

IsSpace(ch) == ch \in WhiteSpace

RECURSIVE TrimStart(_)
TrimStart(s) ==
  IF s # <<>> /\ IsSpace(Head(s)) THEN TrimStart(Tail(s)) ELSE s

RECURSIVE TrimEnd(_)
TrimEnd(s) ==
  IF s # <<>> /\ IsSpace(s[Len(s)]) THEN TrimEnd(SubSeq(s, 1, Len(s) - 1)) ELSE s

\* String.prototype.trim
Trim(s) == TrimEnd(TrimStart(s))

\* JavaScript truthiness of a string: the empty string (and null) is falsy.
Truthy(s) == s # <<>>

\* ------------------------------------------------------------------ records
\* Spread with the operands swapped, { ...updatedData, ...c }: the case wins.
SpreadSwapped(c, updatedData) ==
  [f \in (DOMAIN c) \cup (DOMAIN updatedData) |->
     IF f \in DOMAIN c THEN c[f] ELSE updatedData[f]]

\* Object spread { ...c, ...updatedData }: the fields of both, the patch wins.
Spread(c, updatedData) ==
  [f \in (DOMAIN c) \cup (DOMAIN updatedData) |->
     IF f \in DOMAIN updatedData THEN updatedData[f] ELSE c[f]]

\* Array.prototype.map with the callback of updateCaseData.
MapCases(prevCases, caseId, updatedData) ==
  [i \in 1..Len(prevCases) |->
     IF prevCases[i].id = caseId THEN Spread(prevCases[i], updatedData)
                                 ELSE prevCases[i]]

\* The functional update of the selection in updateCaseData.  The code reads
\* prevSelectedCase.id with no null check; the panels that call it are mounted
\* only while a case is selected.
MapSelected(prevSelectedCase, caseId, updatedData) ==
  IF prevSelectedCase[1].id = caseId
    THEN << Spread(prevSelectedCase[1], updatedData) >>
    ELSE prevSelectedCase

\* updateCaseData without its setSelectedCase call: the list alone is updated.
updateCaseDataListOnly(cs, sel, caseId, updatedData) ==
  [cases |-> MapCases(cs, caseId, updatedData), selectedCase |-> sel]

\* updateCaseData(caseId, updatedData) applied to the store (cs, sel).
updateCaseData(cs, sel, caseId, updatedData) ==
  [cases |-> MapCases(cs, caseId, updatedData),
   selectedCase |-> MapSelected(sel, caseId, updatedData)]

\* Array.prototype.find(c => c.id === id): <<>> for undefined, else <<c>>.
RECURSIVE Find(_, _)
Find(arr, id) ==
  IF arr = <<>> THEN <<>>
  ELSE IF Head(arr).id = id THEN << Head(arr) >>
  ELSE Find(Tail(arr), id)

\* ------------------------------------------------------------------ backend
\* The Remote Case Service (not part of App.js): case ids are list positions.
SrvNewCase(srv, name) ==
  [id |-> Len(srv) + 1, name |-> name, created_at |-> Len(srv) + 1,
   chat_history |-> <<>>, documents |-> <<>>]

SrvMsg(mid, sender, content) ==
  [id |-> mid, sender |-> sender, content |-> content]

\* Server message and document ids are drawn from a range of their own.
SrvIdBase == 100

\* POST /api/cases/{id}/chat: stores the user text and the agent's reply.
SrvReply(seq) == SrvMsg(SrvIdBase + seq + 1, "agent", <<"reply">>)

SrvChat(srv, id, text, seq) ==
  [i \in 1..Len(srv) |->
     IF srv[i].id = id
       THEN [srv[i] EXCEPT !.chat_history =
               @ \o << SrvMsg(SrvIdBase + seq, "user", text), SrvReply(seq) >>]
       ELSE srv[i]]

\* POST /api/cases/{id}/documents: stores the document and a confirmation
\* chat message.
SrvDoc(file, seq) == [id |-> SrvIdBase + seq, name |-> file]

SrvUpload(srv, id, file, seq) ==
  [i \in 1..Len(srv) |->
     IF srv[i].id = id
       THEN [srv[i] EXCEPT
               !.documents = Append(@, SrvDoc(file, seq)),
               !.chat_history =
                  Append(@, SrvMsg(SrvIdBase + seq + 1, "agent", <<"uploaded ">> \o file))]
       ELSE srv[i]]

RECURSIVE SrvInit(_)
SrvInit(n) ==
  IF n = 0 THEN <<>>
  ELSE LET s == SrvInit(n - 1) IN Append(s, SrvNewCase(s, <<"c">>))

\* What the backend holds when the page is opened: nothing or one case.
InitialBackends == { SrvInit(0), SrvInit(1) }

\* Backends whose list has a first and a last case.
LoadBackends == InitialBackends \cup { SrvInit(2) }

\* ------------------------------------------------------------------ state
VARIABLES
  cases,         \* useState([])       App.js:22
  selectedCase,  \* useState(null)     App.js:23
  isLoading,     \* useState(true)     App.js:24
  error,         \* useState(null)     App.js:25
  newMessage,    \* useState('')       App.js:166
  isTyping,      \* useState(false)    App.js:167
  isUploading,   \* useState(false)    App.js:272
  now,           \* the last value Date.now() returned, 0 before the first reading
  loadPc,        \* the fetchCases() call of the mount effect
  creates,       \* the handleCreateCase() calls suspended at their await
  sends,         \* the handleSendMessage() calls suspended at their await
  uploads,       \* the handleFileChange() calls suspended at an await
  ops,           \* network operations started so far
  srvCases,      \* the backend's case list
  srvSeq,        \* the backend's id counter
  alerted        \* the text of the last alert() shown, <<>> before the first

vars == << cases, selectedCase, isLoading, error, newMessage, isTyping,
           isUploading, now, loadPc, creates, sends, uploads, ops, srvCases,
           srvSeq, alerted >>

\* The component's state after the first render, before any effect ran.
ClientInit ==
  /\ cases = <<>>
  /\ selectedCase = <<>>
  /\ isLoading = TRUE
  /\ error = <<>>
  /\ newMessage = <<>>
  /\ isTyping = FALSE
  /\ isUploading = FALSE
  /\ now = 0
  /\ loadPc = "mount"
  /\ creates = <<>>
  /\ sends = <<>>
  /\ uploads = <<>>
  /\ ops = 0
  /\ srvSeq = 1
  /\ alerted = <<>>

Init ==
  /\ ClientInit
  /\ srvCases \in InitialBackends

\* A view that keeps rendering the application after a failed load.
RenderedDespiteError == ~isLoading

\* The spinner and the error screen replace the whole view (App.js:85-91).
Rendered == ~isLoading /\ error = <<>>

\* CaseDetailPanel, and the two panels in it, are rendered only while a case
\* is selected (App.js:129-130).
PanelMounted == Rendered /\ selectedCase # <<>>

\* A suspended call resumes and leaves the list of suspended calls.
RemoveAt(calls, i) ==
  SubSeq(calls, 1, i - 1) \o SubSeq(calls, i + 1, Len(calls))

\* err.message of the TypeError fetch() rejects with when the network fails.
NetworkErrorMessage == <<"Failed to fetch">>

\* The ways a request fails: a non-2xx response or a rejected fetch().
Failures == {"bad", "neterr"}

\* ------------------------------------------------------------------ load
\* useEffect(() => { fetchCases(); }, []) up to the await.
FetchCasesStart ==
  /\ loadPc = "mount"
  /\ isLoading' = TRUE
  /\ loadPc' = "await"
  /\ UNCHANGED << cases, selectedCase, error, newMessage, isTyping,
                  isUploading, now, creates, sends, uploads, ops, srvCases,
                  srvSeq, alerted >>

\* A load that selects the last returned case instead of the first.
SelectedAfterLoadLast(data, prevSelected) ==
  IF Len(data) > 0 THEN << data[Len(data)] >> ELSE prevSelected

\* if (data.length > 0) { setSelectedCase(data[0]); }
SelectedAfterLoad(data, prevSelected) ==
  IF Len(data) > 0 THEN << data[1] >> ELSE prevSelected

\* fetchCases after the await, response.ok: data is the backend's list.
FetchCasesOk ==
  /\ loadPc = "await"
  /\ LET data == srvCases IN
       /\ cases' = data
       /\ selectedCase' = SelectedAfterLoad(data, selectedCase)
  /\ isLoading' = FALSE
  /\ loadPc' = "done"
  /\ UNCHANGED << error, newMessage, isTyping, isUploading, now, creates,
                  sends, uploads, ops, srvCases, srvSeq, alerted >>

\* The message of the error fetchCases catches.
FetchCasesError(status) ==
  IF status = "bad" THEN <<"Failed to fetch cases from the backend.">>
                    ELSE NetworkErrorMessage

\* fetchCases after the await, !response.ok or a rejected fetch.
FetchCasesFail(status) ==
  /\ loadPc = "await"
  /\ error' = FetchCasesError(status)
  /\ isLoading' = FALSE
  /\ loadPc' = "done"
  /\ UNCHANGED << cases, selectedCase, newMessage, isTyping, isUploading, now,
                  creates, sends, uploads, ops, srvCases, srvSeq, alerted >>

\* ------------------------------------------------------------------ select
\* A list whose selected entry is deselected when it is clicked again.
handleSelectCaseToggle(i) ==
  /\ Rendered
  /\ i \in 1..Len(cases)
  /\ selectedCase' = IF selectedCase = << cases[i] >> THEN <<>> ELSE << cases[i] >>
  /\ UNCHANGED << cases, isLoading, error, newMessage, isTyping, isUploading,
                  now, loadPc, creates, sends, uploads, ops, srvCases, srvSeq, alerted >>

\* onClick={() => handleSelectCase(caseItem)} on the i-th rendered list entry.
handleSelectCase(i) ==
  /\ Rendered
  /\ i \in 1..Len(cases)
  /\ selectedCase' = << cases[i] >>
  /\ UNCHANGED << cases, isLoading, error, newMessage, isTyping, isUploading,
                  now, loadPc, creates, sends, uploads, ops, srvCases, srvSeq, alerted >>

\* ------------------------------------------------------------------ create
\* A name check that forgets to trim.
NameAcceptedUntrimmed(newCaseName) == Truthy(newCaseName)

\* if (newCaseName && newCaseName.trim() !== "")
NameAccepted(newCaseName) == Truthy(newCaseName) /\ Trim(newCaseName) # <<>>

\* handleCreateCase up to the await: prompt() returned newCaseName.  The
\* handler is a closure of the render it was created in, so `cases` in it is
\* the list of that render.
handleCreateCase(newCaseName) ==
  /\ Rendered
  /\ IF NameAccepted(newCaseName)
       THEN /\ ops < MaxOps
            /\ ops' = ops + 1
            /\ creates' = Append(creates, [name |-> newCaseName, cases |-> cases])
       ELSE /\ UNCHANGED << creates, ops >>
  /\ UNCHANGED << cases, selectedCase, isLoading, error, newMessage, isTyping,
                  isUploading, now, loadPc, sends, uploads, srvCases, srvSeq, alerted >>

\* setCases([...cases, newCase]) with the `cases` of the handler's closure.
CreatedCases(closureCases, newCase) == Append(closureCases, newCase)

\* handleCreateCase after the await, response.ok: the backend has stored the
\* case and returned it.
CreateOk(i) ==
  /\ i \in 1..Len(creates)
  /\ LET newCase == SrvNewCase(srvCases, creates[i].name) IN
       /\ srvCases' = Append(srvCases, newCase)
       /\ cases' = CreatedCases(creates[i].cases, newCase)
       /\ selectedCase' = << newCase >>
  /\ creates' = RemoveAt(creates, i)
  /\ UNCHANGED << isLoading, error, newMessage, isTyping, isUploading, now,
                  loadPc, sends, uploads, ops, srvSeq, alerted >>

\* The message of the error handleCreateCase catches.
CreateError(status) ==
  IF status = "bad" THEN <<"Failed to create case.">> ELSE NetworkErrorMessage

\* handleCreateCase after the await, !response.ok or a rejected fetch.
CreateFail(i, status) ==
  /\ i \in 1..Len(creates)
  /\ alerted' = <<"Error: ">> \o CreateError(status)
  /\ creates' = RemoveAt(creates, i)
  /\ UNCHANGED << cases, selectedCase, isLoading, error, newMessage, isTyping,
                  isUploading, now, loadPc, sends, uploads, ops, srvCases,
                  srvSeq >>

\* ------------------------------------------------------------------ chat
\* onChange={(e) => setNewMessage(e.target.value)}; the input is disabled
\* while isTyping.
SetNewMessage(text) ==
  /\ PanelMounted
  /\ ~isTyping
  /\ newMessage' = text
  /\ UNCHANGED << cases, selectedCase, isLoading, error, isTyping, isUploading,
                  now, loadPc, creates, sends, uploads, ops, srvCases, srvSeq, alerted >>

\* A guard that lets a blank message through.
SendRefusedOnlyWhileTyping(text, typing) == typing

\* if (!newMessage.trim() || isTyping) return;
SendRefused(text, typing) == ~Truthy(Trim(text)) \/ typing

\* The values the next Date.now() can return.  The clock has millisecond
\* resolution and does not go back: a reading repeats the last one or is
\* later; the first reading is called 1.
DateNow == IF now = 0 THEN {1} ELSE {now, now + 1}

\* const userMessage = { id: Date.now(), sender: 'user', content: newMessage,
\* timestamp } (the timestamp is a second reading of the same clock and is
\* left out).
UserMessage(clock, text) == [id |-> clock, sender |-> "user", content |-> text]

\* An update that does not show the user's message before the response.
OptimisticPatchNone(caseData, userMessage) ==
  [chat_history |-> caseData.chat_history]

\* { chat_history: [...caseData.chat_history, userMessage] }
OptimisticPatch(caseData, userMessage) ==
  [chat_history |-> Append(caseData.chat_history, userMessage)]

\* handleSendMessage up to the await.  caseData is the prop of the render the
\* handler was created in: the selection of that render.
handleSendMessage ==
  /\ PanelMounted
  /\ IF SendRefused(newMessage, isTyping)
       THEN UNCHANGED << cases, selectedCase, newMessage, isTyping, now,
                            sends, ops >>
       ELSE /\ ops < MaxOps
            /\ ops' = ops + 1
            /\ now' \in DateNow
            /\ LET caseData == selectedCase[1]
                   userMessage == UserMessage(now', newMessage)
                   patch == OptimisticPatch(caseData, userMessage)
                   store == updateCaseData(cases, selectedCase, caseData.id, patch)
               IN /\ cases' = store.cases
                  /\ selectedCase' = store.selectedCase
                  /\ sends' = Append(sends,
                       [caseData |-> caseData, userMessage |-> userMessage,
                        text |-> newMessage])
            /\ newMessage' = <<>>
            /\ isTyping' = TRUE
  /\ UNCHANGED << isLoading, error, isUploading, loadPc, creates, uploads,
                  srvCases, srvSeq, alerted >>

\* { chat_history: [...caseData.chat_history, userMessage, response] }
FinalPatch(caseData, userMessage, response) ==
  [chat_history |-> caseData.chat_history \o << userMessage, response >>]

\* handleSendMessage after the await, response.ok: the backend has stored the
\* exchange and returned the agent's message.
SendOk(i) ==
  /\ i \in 1..Len(sends)
  /\ LET caseData == sends[i].caseData
         agentResponse == SrvReply(srvSeq)
         patch == FinalPatch(caseData, sends[i].userMessage, agentResponse)
         store == updateCaseData(cases, selectedCase, caseData.id, patch)
     IN /\ srvCases' = SrvChat(srvCases, caseData.id, sends[i].text, srvSeq)
        /\ srvSeq' = srvSeq + 2
        /\ cases' = store.cases
        /\ selectedCase' = store.selectedCase
  /\ isTyping' = FALSE
  /\ sends' = RemoveAt(sends, i)
  /\ UNCHANGED << isLoading, error, newMessage, isUploading, now, loadPc,
                  creates, uploads, ops, alerted >>

\* The message of the error handleSendMessage catches.
SendError(status) ==
  IF status = "bad" THEN <<"Failed to send message.">> ELSE NetworkErrorMessage

\* const errorResponse = { id: Date.now(), sender: 'agent', content:
\* `Error: ${err.message}. Please check if the backend is running.` }
ErrorResponse(clock, message) ==
  [id |-> clock, sender |-> "agent",
   content |-> <<"Error: ">> \o message
                 \o <<". Please check if the backend is running.">>]

\* A failure path without the finally: the typing indicator is never cleared.
SendFailNoFinally(i, status) ==
  /\ i \in 1..Len(sends)
  /\ now' \in DateNow
  /\ LET caseData == sends[i].caseData
         errorResponse == ErrorResponse(now', SendError(status))
         patch == FinalPatch(caseData, sends[i].userMessage, errorResponse)
         store == updateCaseData(cases, selectedCase, caseData.id, patch)
     IN /\ cases' = store.cases
        /\ selectedCase' = store.selectedCase
  /\ sends' = RemoveAt(sends, i)
  /\ UNCHANGED << isLoading, error, newMessage, isTyping, isUploading, loadPc,
                  creates, uploads, ops, srvCases, srvSeq, alerted >>

\* handleSendMessage after the await, !response.ok or a rejected fetch.
SendFail(i, status) ==
  /\ i \in 1..Len(sends)
  /\ now' \in DateNow
  /\ LET caseData == sends[i].caseData
         errorResponse == ErrorResponse(now', SendError(status))
         patch == FinalPatch(caseData, sends[i].userMessage, errorResponse)
         store == updateCaseData(cases, selectedCase, caseData.id, patch)
     IN /\ cases' = store.cases
        /\ selectedCase' = store.selectedCase
  /\ isTyping' = FALSE
  /\ sends' = RemoveAt(sends, i)
  /\ UNCHANGED << isLoading, error, newMessage, isUploading, loadPc, creates,
                  uploads, ops, srvCases, srvSeq, alerted >>

\* ------------------------------------------------------------------ upload
\* A file input that stays enabled during an upload.
UploadAlwaysEnabled == TRUE

\* <input type="file" ... disabled={isUploading} />
UploadEnabled == ~isUploading

\* handleFileChange up to the first await.  The file input is disabled while
\* isUploading (App.js:334), so no change event fires then.
handleFileChange(file) ==
  /\ PanelMounted
  /\ UploadEnabled
  /\ IF file = <<>>
       THEN UNCHANGED << isUploading, uploads, ops >>
       ELSE /\ ops < MaxOps
            /\ ops' = ops + 1
            /\ isUploading' = TRUE
            /\ uploads' = Append(uploads,
                 [pc |-> "post", caseData |-> selectedCase[1], file |-> file])
  /\ UNCHANGED << cases, selectedCase, isLoading, error, newMessage, isTyping,
                  now, loadPc, creates, sends, srvCases, srvSeq, alerted >>

\* handleFileChange after the first await, response.ok: the backend has
\* stored the document; newDocument is read and dropped, and the case list is
\* requested.
UploadPosted(i) ==
  /\ i \in 1..Len(uploads)
  /\ uploads[i].pc = "post"
  /\ srvCases' = SrvUpload(srvCases, uploads[i].caseData.id, uploads[i].file, srvSeq)
  /\ srvSeq' = srvSeq + 2
  /\ uploads' = [uploads EXCEPT ![i].pc = "refetch"]
  /\ UNCHANGED << cases, selectedCase, isLoading, error, newMessage, isTyping,
                  isUploading, now, loadPc, creates, sends, ops, alerted >>

\* The message of the error handleFileChange catches after the POST.
UploadError(status) ==
  IF status = "bad" THEN <<"File upload failed.">> ELSE NetworkErrorMessage

\* handleFileChange after the first await, !response.ok or a rejected fetch.
UploadPostFail(i, status) ==
  /\ i \in 1..Len(uploads)
  /\ uploads[i].pc = "post"
  /\ isUploading' = FALSE
  /\ alerted' = <<"Error: ">> \o UploadError(status)
  /\ uploads' = RemoveAt(uploads, i)
  /\ UNCHANGED << cases, selectedCase, isLoading, error, newMessage, isTyping,
                  now, loadPc, creates, sends, ops, srvCases, srvSeq >>

\* if (updatedCase) { updateCaseData(caseData.id, updatedCase); }
SyncedStore(cs, sel, caseId, allCases) ==
  LET updatedCase == Find(allCases, caseId) IN
    IF updatedCase # <<>>
      THEN updateCaseData(cs, sel, caseId, updatedCase[1])
      ELSE [cases |-> cs, selectedCase |-> sel]

\* The responses to the follow-up GET /api/cases whose body is a JSON array:
\* the backend's list with a 2xx status, and with a non-2xx status the
\* backend's list or an empty list.
RefetchResponses ==
  { [status |-> "ok", body |-> srvCases],
    [status |-> "bad", body |-> srvCases],
    [status |-> "bad", body |-> <<>>] }

\* handleFileChange after the second await with allCases an array.
\* caseResponse.ok is not read (App.js:294-295), so a non-2xx response whose
\* body is a JSON array is handled like a 2xx one.
UploadSynced(i, caseResponse) ==
  /\ i \in 1..Len(uploads)
  /\ uploads[i].pc = "refetch"
  /\ caseResponse \in RefetchResponses
  /\ LET caseData == uploads[i].caseData
         allCases == caseResponse.body
         store == SyncedStore(cases, selectedCase, caseData.id, allCases)
     IN /\ cases' = store.cases
        /\ selectedCase' = store.selectedCase
  /\ isUploading' = FALSE
  /\ uploads' = RemoveAt(uploads, i)
  /\ UNCHANGED << isLoading, error, newMessage, isTyping, now, loadPc,
                  creates, sends, ops, srvCases, srvSeq, alerted >>

\* The message of the error handleFileChange catches after the re-fetch: the
\* fetch rejected, or the body is a JSON object and allCases.find is no
\* function.
RefetchError(status) ==
  IF status = "neterr" THEN NetworkErrorMessage
                       ELSE <<"allCases.find is not a function">>

\* handleFileChange after the second await, an error thrown.
UploadSyncFail(i, status) ==
  /\ i \in 1..Len(uploads)
  /\ uploads[i].pc = "refetch"
  /\ isUploading' = FALSE
  /\ alerted' = <<"Error: ">> \o RefetchError(status)
  /\ uploads' = RemoveAt(uploads, i)
  /\ UNCHANGED << cases, selectedCase, isLoading, error, newMessage, isTyping,
                  now, loadPc, creates, sends, ops, srvCases, srvSeq >>

\* ------------------------------------------------------------------ system
Next ==
  \/ FetchCasesStart
  \/ FetchCasesOk
  \/ \E status \in Failures : FetchCasesFail(status)
  \/ \E i \in 1..Len(cases) : handleSelectCase(i)
  \/ \E newCaseName \in PromptInputs : handleCreateCase(newCaseName)
  \/ \E i \in 1..Len(creates) : CreateOk(i)
  \/ \E i \in 1..Len(creates), status \in Failures : CreateFail(i, status)
  \/ \E text \in Texts : SetNewMessage(text)
  \/ handleSendMessage
  \/ \E i \in 1..Len(sends) : SendOk(i)
  \/ \E i \in 1..Len(sends), status \in Failures : SendFail(i, status)
  \/ \E file \in Files : handleFileChange(file)
  \/ \E i \in 1..Len(uploads) : UploadPosted(i)
  \/ \E i \in 1..Len(uploads), status \in Failures : UploadPostFail(i, status)
  \/ \E i \in 1..Len(uploads), r \in RefetchResponses : UploadSynced(i, r)
  \/ \E i \in 1..Len(uploads), status \in Failures : UploadSyncFail(i, status)

Spec == Init /\ [][Next]_vars

\* The same program opened against a backend that may hold two cases, so
\* that a load returns an array with a first and a last entry, and followed
\* by one operation fewer.
LoadInit ==
  /\ ClientInit
  /\ srvCases \in LoadBackends

LoadNext == Next /\ ops' < MaxOps

LoadSpec == LoadInit /\ [][LoadNext]_vars

\* The continuation of handleSendMessage after its await: it runs once the
\* fetch settles, with a 2xx response, a non-2xx response or a rejection.
SendResponse ==
  \E i \in 1..Len(sends) :
    SendOk(i) \/ \E status \in Failures : SendFail(i, status)

\* The continuations of handleFileChange after each of its two awaits.
UploadResponse ==
  \E i \in 1..Len(uploads) :
    \/ UploadPosted(i)
    \/ \E status \in Failures : UploadPostFail(i, status)
    \/ \E r \in RefetchResponses : UploadSynced(i, r)
    \/ \E status \in Failures : UploadSyncFail(i, status)

\* Every issued chat or upload request eventually settles, and the event loop
\* then runs the handler's continuation.
FairSpec == Spec /\ WF_vars(SendResponse) /\ WF_vars(UploadResponse)

\* ================================================================== claims
\* The fields of a case the views render.
SameData(a, b) ==
  /\ a.name = b.name
  /\ a.chat_history = b.chat_history
  /\ a.documents = b.documents

\* The list entries with a given id.
Entries(cs, id) == {j \in 1..Len(cs) : cs[j].id = id}

\* C1: whenever a case is selected, the list holds an entry with the
\* selection's id, and the entry with that id has the selection's name,
\* chat_history and documents.
C1_SelectionMatchesList ==
  selectedCase # <<>> =>
    /\ Entries(cases, selectedCase[1].id) # {}
    /\ \A j \in Entries(cases, selectedCase[1].id) :
         SameData(cases[j], selectedCase[1])

\* C1 witness: after a create, a completed chat send and a completed upload,
\* the case that was chatted on and uploaded to is selected again.
C1_Witness ==
  /\ selectedCase # <<>>
  /\ Len(cases) >= 2
  /\ Len(selectedCase[1].chat_history) >= 2
  /\ Len(selectedCase[1].documents) >= 1
  /\ creates = <<>> /\ sends = <<>> /\ uploads = <<>>

\* What merge(caseId, patch) does to one record: the patch's fields carry
\* the patch's values, the other fields are kept, no field is lost or added.
Merged(before, after, patch) ==
  /\ DOMAIN after = (DOMAIN before) \cup (DOMAIN patch)
  /\ \A f \in DOMAIN patch : after[f] = patch[f]
  /\ \A f \in (DOMAIN before) \ (DOMAIN patch) : after[f] = before[f]

\* The step is a merge(caseId, patch) of the store.
MergeEffect(caseId, patch) ==
  /\ Len(cases') = Len(cases)
  /\ \A j \in 1..Len(cases) :
       IF cases[j].id = caseId
         THEN Merged(cases[j], cases'[j], patch)
         ELSE cases'[j] = cases[j]
  /\ Len(selectedCase') = Len(selectedCase)
  /\ selectedCase # <<>> =>
       IF selectedCase[1].id = caseId
         THEN Merged(selectedCase[1], selectedCase'[1], patch)
         ELSE selectedCase' = selectedCase

\* The patch a step that calls updateCaseData passes, read off the handler's
\* closure.
SendStartStep == handleSendMessage /\ ~SendRefused(newMessage, isTyping)

\* C2: every step that calls updateCaseData(caseId, patch) (the optimistic
\* update, the send success, the send failure, the upload re-sync) gives the
\* list entry with that id, and the selection if it has that id, the patch's
\* value in every field of the patch, keeps their other fields, and keeps
\* every other entry and a selection with another id.
C2_MergeFrame ==
  [][ /\ SendStartStep =>
           MergeEffect(selectedCase[1].id,
             [chat_history |->
                Append(selectedCase[1].chat_history, UserMessage(now', newMessage))])
      /\ \A i \in 1..Len(sends) :
           /\ SendOk(i) =>
                MergeEffect(sends[i].caseData.id,
                  [chat_history |-> sends[i].caseData.chat_history
                     \o << sends[i].userMessage, SrvReply(srvSeq) >>])
           /\ \A status \in Failures :
                SendFail(i, status) =>
                  MergeEffect(sends[i].caseData.id,
                    [chat_history |-> sends[i].caseData.chat_history
                       \o << sends[i].userMessage,
                             ErrorResponse(now', SendError(status)) >>])
      /\ \A i \in 1..Len(uploads) : \A r \in RefetchResponses :
           (UploadSynced(i, r) /\ Find(r.body, uploads[i].caseData.id) # <<>>) =>
             MergeEffect(uploads[i].caseData.id,
                         Find(r.body, uploads[i].caseData.id)[1])
    ]_vars

\* C2 witness: a partial patch (chat_history alone) has been merged into a
\* case that has documents, while another case is in the list.
C2_Witness ==
  /\ selectedCase # <<>>
  /\ Len(cases) >= 2
  /\ Len(selectedCase[1].documents) >= 1
  /\ \E m \in 1..Len(selectedCase[1].chat_history) :
       selectedCase[1].chat_history[m].sender = "user"

\* a is b with zero or more elements left out: the elements of a occur in b
\* in the same relative order.
RECURSIVE IsSubseq(_, _)
IsSubseq(a, b) ==
  IF a = <<>> THEN TRUE
  ELSE IF b = <<>> THEN FALSE
  ELSE IF Head(a) = Head(b) THEN IsSubseq(Tail(a), Tail(b))
  ELSE IsSubseq(a, Tail(b))

\* A step of one of the two paths that write chat_history: a chat send (its
\* optimistic update, its success, its failure) or the re-sync of a
\* successful upload after a 2xx re-fetch.
ChatOrUploadStep ==
  \/ SendStartStep
  \/ \E i \in 1..Len(sends) : SendOk(i)
  \/ \E i \in 1..Len(sends), status \in Failures : SendFail(i, status)
  \/ \E i \in 1..Len(uploads), r \in RefetchResponses :
       r.status = "ok" /\ UploadSynced(i, r)

\* C3: chat messages are append-only, also when a chat send and an upload
\* for the same case interleave: in every step of a chat send or of an
\* upload's re-sync, each case of the list is still in the list afterwards
\* with every message it had, in the same relative order.
C3_AppendOnly ==
  [][ ChatOrUploadStep =>
        \A j \in 1..Len(cases) :
          \E j2 \in 1..Len(cases') :
            /\ cases'[j2].id = cases[j].id
            /\ IsSubseq(cases[j].chat_history, cases'[j2].chat_history)
    ]_vars

\* C4: when a chat send succeeds, the store's history of the case the send
\* was started on is the history at submit time, then the user message, then
\* the agent message the backend returned, and isTyping is false.
C4_SendOkAppendsTwo ==
  [][ \A i \in 1..Len(sends) :
        SendOk(i) =>
          /\ ~isTyping'
          /\ \E j \in Entries(cases', sends[i].caseData.id) :
               LET h == cases'[j].chat_history
                   h0 == sends[i].caseData.chat_history
               IN /\ Len(h) = Len(h0) + 2
                  /\ SubSeq(h, 1, Len(h0)) = h0
                  /\ h[Len(h0) + 1].sender = "user"
                  /\ h[Len(h0) + 1].content = sends[i].text
                  /\ h[Len(h0) + 2] = SrvReply(srvSeq)
    ]_vars

\* C5: when a chat send fails, the store's history of the case the send was
\* started on is the history at submit time, then the user message, then a
\* synthetic agent message that describes the failure; the application-wide
\* error is not set and isTyping is false.
C5_SendFailAppendsTwo ==
  [][ \A i \in 1..Len(sends) : \A status \in Failures :
        SendFail(i, status) =>
          /\ ~isTyping'
          /\ error' = error
          /\ \E j \in Entries(cases', sends[i].caseData.id) :
               LET h == cases'[j].chat_history
                   h0 == sends[i].caseData.chat_history
               IN /\ Len(h) = Len(h0) + 2
                  /\ SubSeq(h, 1, Len(h0)) = h0
                  /\ h[Len(h0) + 1].sender = "user"
                  /\ h[Len(h0) + 1].content = sends[i].text
                  /\ h[Len(h0) + 2].sender = "agent"
                  /\ Head(h[Len(h0) + 2].content) = "Error: "
    ]_vars

\* C6: when a create succeeds, the list is the list as it was just before
\* the response was processed with the returned case added at the end, and
\* the returned case is selected.
C6_CreateAppends ==
  [][ \A i \in 1..Len(creates) :
        CreateOk(i) =>
          LET newCase == srvCases'[Len(srvCases')] IN
            /\ cases' = Append(cases, newCase)
            /\ selectedCase' = << newCase >>
    ]_vars

\* C7: cases are never deleted: in every step, every id in the list is still
\* in the list afterwards.
C7_NeverDeleted ==
  [][ \A j \in 1..Len(cases) : Entries(cases', cases[j].id) # {} ]_vars

\* The documents and the chat history of a store record are those of the
\* re-fetched record.
Synced(record, fetched) ==
  /\ record.documents = fetched.documents
  /\ record.chat_history = fetched.chat_history

\* C8: after a successful upload and a re-fetch that contains the case, the
\* list entry of the case, and the selection if it has the case's id, have
\* the documents and the chat history of the re-fetched record; after a
\* re-fetch that does not contain the case, the store is unchanged.
C8_UploadSync ==
  [][ \A i \in 1..Len(uploads) : \A r \in RefetchResponses :
        UploadSynced(i, r) =>
          LET id == uploads[i].caseData.id
              fetched == Find(r.body, id)
          IN IF fetched = <<>>
               THEN cases' = cases /\ selectedCase' = selectedCase
               ELSE r.status = "ok" =>
                 /\ Entries(cases', id) # {}
                 /\ \A j \in Entries(cases', id) : Synced(cases'[j], fetched[1])
                 /\ (selectedCase' # <<>> /\ selectedCase'[1].id = id) =>
                      Synced(selectedCase'[1], fetched[1])
    ]_vars

\* The step leaves the store alone, raises an alert and ends the upload.
UploadFailedCleanly ==
  /\ cases' = cases
  /\ selectedCase' = selectedCase
  /\ Len(alerted') > 0 /\ Head(alerted') = "Error: "
  /\ ~isUploading'

\* C9: when the upload POST fails, or the POST succeeds and the re-fetch
\* fails, the step that handles the failure leaves cases and selectedCase
\* unchanged, raises an alert and sets isUploading to false.
C9_FailedUploadNoChange ==
  [][ \A i \in 1..Len(uploads) :
        /\ \A status \in Failures :
             (UploadPostFail(i, status) \/ UploadSyncFail(i, status)) =>
               UploadFailedCleanly
        /\ \A r \in RefetchResponses :
             (r.status = "bad" /\ UploadSynced(i, r)) => UploadFailedCleanly
    ]_vars

\* Every message of the store after the step was in the store before it or
\* is one of `known`, the messages the handler holds without the response.
OnlyClientMessages(known) ==
  \A j \in 1..Len(cases') : \A m \in 1..Len(cases'[j].chat_history) :
    \/ cases'[j].chat_history[m] \in known
    \/ \E j0 \in 1..Len(cases) : \E m0 \in 1..Len(cases[j0].chat_history) :
         cases[j0].chat_history[m0] = cases'[j].chat_history[m]

\* The messages of a history.
Messages(h) == {h[m] : m \in 1..Len(h)}

\* C10: the step that handles a non-2xx response writes nothing of the
\* response into cases or selectedCase: for the load, the create, the upload
\* POST and the re-fetch the store is unchanged, for the chat send the only
\* messages written are those of the handler's closure and the client's
\* error message.
C10_Non2xxNeverWritten ==
  [][ /\ FetchCasesFail("bad") => (cases' = cases /\ selectedCase' = selectedCase)
      /\ \A i \in 1..Len(creates) :
           CreateFail(i, "bad") => (cases' = cases /\ selectedCase' = selectedCase)
      /\ \A i \in 1..Len(sends) :
           SendFail(i, "bad") =>
             OnlyClientMessages(
               Messages(sends[i].caseData.chat_history)
                 \cup { sends[i].userMessage,
                        ErrorResponse(now', SendError("bad")) })
      /\ \A i \in 1..Len(uploads) :
           /\ (UploadPostFail(i, "bad") \/ UploadSyncFail(i, "bad")) =>
                (cases' = cases /\ selectedCase' = selectedCase)
           /\ \A r \in RefetchResponses :
                (r.status = "bad" /\ UploadSynced(i, r)) =>
                  (cases' = cases /\ selectedCase' = selectedCase)
    ]_vars

\* C11: a successful load replaces the collection with the returned array in
\* the returned order; if the array is not empty the first returned case
\* becomes the selection, otherwise the selection stays null; afterwards the
\* view is not loading and no error is set.
C11_LoadSelectsFirst ==
  [][ FetchCasesOk =>
        /\ cases' = srvCases
        /\ Len(srvCases) > 0 => selectedCase' = << srvCases[1] >>
        /\ Len(srvCases) = 0 => selectedCase' = <<>>
        /\ ~isLoading'
        /\ error' = <<>>
    ]_vars

\* A load returned two different cases and the first one is selected.
C11_Witness ==
  /\ loadPc = "done"
  /\ ops = 0
  /\ error = <<>>
  /\ ~isLoading
  /\ Len(cases) = 2
  /\ cases = srvCases
  /\ cases[1].id # cases[2].id
  /\ selectedCase = << cases[1] >>

\* C12: a failed initial load is terminal: the failing step sets the error,
\* leaves `cases` empty and the selection null and clears isLoading; from the
\* error state nothing changes any more: the load is not retried, the error
\* is never cleared, and no create, select, chat send or upload starts.
C12_FailedLoadTerminal ==
  [][ /\ (\E status \in Failures : FetchCasesFail(status)) =>
            /\ error' # <<>>
            /\ cases' = <<>>
            /\ selectedCase' = <<>>
            /\ ~isLoading'
      /\ error # <<>> => UNCHANGED vars
    ]_vars

\* The load failed although the backend holds a case: the error screen is
\* up, nothing is listed or selected and no request is in flight.
C12_Witness ==
  /\ loadPc = "done"
  /\ error # <<>>
  /\ ~isLoading
  /\ Len(srvCases) > 0
  /\ cases = <<>>
  /\ selectedCase = <<>>
  /\ creates = <<>> /\ sends = <<>> /\ uploads = <<>>

\* C13: in every reachable state at most one chat send and at most one
\* upload (its re-fetch included) is in flight, whatever case each was
\* started on and whatever case is selected now; the busy flags say exactly
\* whether one is in flight, so a submit while sending and a file selection
\* while uploading start nothing.
C13_OneInFlight ==
  /\ Len(sends) <= 1
  /\ Len(uploads) <= 1
  /\ isTyping <=> Len(sends) = 1
  /\ isUploading <=> Len(uploads) = 1

\* A send and an upload are both in flight, started on different cases, and
\* the selection has moved away from the case the send was started on.
C13_Witness ==
  /\ Len(sends) = 1
  /\ Len(uploads) = 1
  /\ selectedCase # <<>>
  /\ sends[1].caseData.id # selectedCase[1].id
  /\ uploads[1].caseData.id # sends[1].caseData.id

\* C14: if every issued request eventually completes, with success or with
\* failure, a chat send that set the typing flag eventually clears it and an
\* upload that set the uploading flag eventually clears it.
\* (isTyping ~> ~isTyping is the same property as []<>~isTyping.)
C14_BusyFlagsReturn ==
  /\ []<>(~isTyping)
  /\ []<>(~isUploading)

\* A send is waiting for its response while an upload, already stored by the
\* backend, is waiting for its re-fetch.
C14_Witness ==
  /\ isTyping
  /\ isUploading
  /\ Len(sends) = 1
  /\ Len(uploads) = 1
  /\ uploads[1].pc = "refetch"

\* C15: submitting a compose text that is empty or only whitespace changes
\* neither `cases`, nor the selection, nor the compose text, nor the typing
\* flag, and puts no chat request in flight.
C15_BlankSendNoChange ==
  [][ (handleSendMessage /\ Trim(newMessage) = <<>>) =>
        UNCHANGED << cases, selectedCase, newMessage, isTyping, sends >>
    ]_vars

\* A whitespace-only draft sits in the compose input of an idle chat panel
\* whose case already has history, and no chat request is in flight.
C15_Witness ==
  /\ PanelMounted
  /\ ~isTyping
  /\ newMessage # <<>>
  /\ Trim(newMessage) = <<>>
  /\ Len(selectedCase[1].chat_history) > 0
  /\ sends = <<>>

\* C16: a create that does not succeed leaves the store unchanged.  A name
\* that is empty, only whitespace or a cancelled prompt issues no request and
\* leaves `cases` and the selection as they are; a create request that fails
\* alerts the error and leaves `cases` and the selection as they are.
C16_FailedCreateNoChange ==
  [][ /\ \A newCaseName \in PromptInputs :
           (handleCreateCase(newCaseName) /\ Trim(newCaseName) = <<>>) =>
              UNCHANGED << cases, selectedCase, creates >>
      /\ \A i \in 1..Len(creates), status \in Failures :
           CreateFail(i, status) =>
              /\ cases' = cases
              /\ selectedCase' = selectedCase
              /\ alerted' = <<"Error: ">> \o CreateError(status)
    ]_vars

\* A create request was refused by the backend: the alert is up, no create is
\* in flight and the list still shows a case selected before.
C16_Witness ==
  /\ alerted = <<"Error: ">> \o CreateError("bad")
  /\ creates = <<>>
  /\ ops > 0
  /\ Len(cases) > 0
  /\ selectedCase = << cases[1] >>

\* C17: a submit of non-blank text by an idle chat panel leads, in the same
\* step and so before any response is processed, to a state where the case's
\* chat_history, in the selection and in its list entry, is the prior history
\* followed by one message with sender "user" and the submitted text, the
\* compose input is empty and the typing flag is set.
C17_OptimisticFirst ==
  [][ SendStartStep =>
        LET id == selectedCase[1].id
            prior == selectedCase[1].chat_history
            shown == selectedCase'[1].chat_history
        IN /\ Len(shown) = Len(prior) + 1
           /\ SubSeq(shown, 1, Len(prior)) = prior
           /\ shown[Len(shown)].sender = "user"
           /\ shown[Len(shown)].content = newMessage
           /\ Entries(cases', id) # {}
           /\ \A j \in Entries(cases', id) : cases'[j].chat_history = shown
           /\ newMessage' = <<>>
           /\ isTyping'
    ]_vars

\* A second message was just submitted on a case that already had history:
\* the request is in flight and the provisional message is shown after it.
C17_Witness ==
  /\ isTyping
  /\ Len(sends) = 1
  /\ newMessage = <<>>
  /\ Len(sends[1].caseData.chat_history) > 0
  /\ selectedCase # <<>>
  /\ selectedCase[1].id = sends[1].caseData.id
  /\ selectedCase[1].chat_history =
       Append(sends[1].caseData.chat_history, sends[1].userMessage)

\* No upload has been started so far: none is in flight and the backend has
\* stored no document.
NoUploadSoFar ==
  /\ uploads = <<>>
  /\ \A s \in 1..Len(srvCases) : srvCases[s].documents = <<>>

\* new is old followed by n more messages.
Extends(old, new, n) ==
  /\ Len(new) = Len(old) + n
  /\ SubSeq(new, 1, Len(old)) = old

\* C18: while no upload is involved, chat messages are appended in strict
\* call order.  For a case of the list that stays in the list: a submit puts
\* the user's message after its history; the completion of a send leaves
\* the history the case had at the submit followed by the user's message and
\* the reply or synthetic error message; and while no send on the case is in
\* flight no step changes its history.  So k completed sends leave the
\* initial history followed by u1, r1, ..., uk, rk.
C18_StrictCallOrder ==
  [][ NoUploadSoFar =>
        \A j \in 1..Len(cases) : \A k \in Entries(cases', cases[j].id) :
          LET id == cases[j].id
              old == cases[j].chat_history
              new == cases'[k].chat_history
          IN /\ (SendStartStep /\ selectedCase[1].id = id) =>
                  /\ Extends(old, new, 1)
                  /\ new[Len(new)].sender = "user"
                  /\ new[Len(new)].content = newMessage
             /\ \A i \in 1..Len(sends) :
                  ( /\ sends[i].caseData.id = id
                    /\ SendOk(i) \/ \E status \in Failures : SendFail(i, status) ) =>
                     /\ Extends(sends[i].caseData.chat_history, new, 2)
                     /\ new[Len(new) - 1] = sends[i].userMessage
                     /\ new[Len(new)].sender = "agent"
             /\ ( /\ ~(SendStartStep /\ selectedCase[1].id = id)
                  /\ \A i \in 1..Len(sends) : sends[i].caseData.id # id ) =>
                     new = old
    ]_vars

\* The completion of a call started on case `started` while another case is
\* selected: the selection and every other list entry stay as they are, and
\* the list has an entry for `started` that satisfies `merged`, which is what
\* selecting the case again then shows.
MergedIntoStarted(started, merged(_)) ==
  /\ selectedCase' = selectedCase
  /\ Len(cases') = Len(cases)
  /\ \A j \in 1..Len(cases) : cases[j].id # started => cases'[j] = cases[j]
  /\ \E j \in 1..Len(cases') : cases'[j].id = started /\ merged(cases'[j])

\* C19: a response is merged into the case the call was started on, not the
\* case selected when it arrives.  When a chat send or an upload started on
\* case A completes while another case B is selected, the selection and B's
\* list entry are unchanged, only A's list entry is updated, and it then
\* holds the merged data: the submit-time history followed by the user's
\* message and the reply or error message, or the re-fetched record.
C19_MergedIntoStartedCase ==
  [][ /\ \A i \in 1..Len(sends) :
           ( /\ selectedCase # <<>>
             /\ selectedCase[1].id # sends[i].caseData.id
             /\ SendOk(i) \/ \E status \in Failures : SendFail(i, status) ) =>
              LET done(c) ==
                    /\ Extends(sends[i].caseData.chat_history, c.chat_history, 2)
                    /\ c.chat_history[Len(c.chat_history) - 1] = sends[i].userMessage
              IN MergedIntoStarted(sends[i].caseData.id, done)
      /\ \A i \in 1..Len(uploads) : \A r \in RefetchResponses :
           ( /\ selectedCase # <<>>
             /\ selectedCase[1].id # uploads[i].caseData.id
             /\ Find(r.body, uploads[i].caseData.id) # <<>>
             /\ UploadSynced(i, r) ) =>
              LET fetched == Find(r.body, uploads[i].caseData.id)[1]
                  done(c) == Synced(c, fetched)
              IN MergedIntoStarted(uploads[i].caseData.id, done)
    ]_vars

\* A step in which updateCaseData is invoked: the optimistic update, the
\* completion of a send, or the re-sync of an upload whose re-fetched list
\* holds the case.
MergeStep ==
  \/ SendStartStep
  \/ \E i \in 1..Len(sends) : SendOk(i)
  \/ \E i \in 1..Len(sends), status \in Failures : SendFail(i, status)
  \/ \E i \in 1..Len(uploads), r \in RefetchResponses :
       Find(r.body, uploads[i].caseData.id) # <<>> /\ UploadSynced(i, r)

\* A step that starts a chat send or an upload.
StartStep ==
  \/ SendStartStep
  \/ \E file \in Files : file # <<>> /\ handleFileChange(file)

\* C20: the merge never runs without a selection: a selection, once there,
\* is never null again; a chat send or an upload starts only while a case is
\* selected; and in every step that invokes updateCaseData the selection is
\* not null, so prevSelectedCase.id is defined.
C20_MergeHasSelection ==
  [][ /\ selectedCase # <<>> => selectedCase' # <<>>
      /\ StartStep => selectedCase # <<>>
      /\ MergeStep => selectedCase # <<>> /\ selectedCase' # <<>>
    ]_vars

\* A send has completed on one case, and an upload started on another case
\* waits for its re-fetch while the first case is selected again.
C20_Witness ==
  /\ sends = <<>>
  /\ Len(uploads) = 1
  /\ uploads[1].pc = "refetch"
  /\ selectedCase # <<>>
  /\ selectedCase[1].id # uploads[1].caseData.id
  /\ Len(selectedCase[1].chat_history) >= 2

====
